---- MODULE Spec2Model ----
(***************************************************************************)
(* Near-Earth-object explorer: record construction (models.py), the        *)
(* predicate builder and the limiter (filters.py), the two writers         *)
(* (write.py), and the store's linking and query steps.                    *)
(***************************************************************************)
EXTENDS Integers, Sequences, FiniteSets, TLC

VARIABLES
    pc,          \* control point of the run
    neo_rows,    \* the rows of the object file, in file order
    cad_rows,    \* the rows of the approach file, in file order
    neos,        \* the NearEarthObject instances, in load order
    approaches,  \* the CloseApproach instances, in load order
    args,        \* the ten keyword arguments of create_filters
    filters,     \* create_filters' first result: the GetAttribute instances
    attrs,       \* create_filters' second result: attr_of_interest
    n,           \* the maximum count handed to limit
    it,          \* the iterator handed to limit (a list iterator or the query generator)
    sl,          \* the islice object limit returns
    requested,   \* how many times the consumer has called next() on sl
    yielded,     \* the items sl has yielded, in order
    results,     \* what the writer is handed: "islice" (limit's stream) or "list"
    fmt,         \* which writer runs: "csv" or "json"
    file,        \* the content of the output file
    ret,         \* what the last direct call of a predicate returned
    err          \* the exception that ended the run, or "None"

vars == <<pc, neo_rows, cad_rows, neos, approaches, args, filters, attrs, n, it, sl, requested,
          yielded, results, fmt, file, ret, err>>

----------------------------------------------------------------------------
(* Bounds of the model. *)

\* numeric attribute values and reference values range over 0..MaxVal
MaxVal == 1
\* the sequences handed to limit hold at most MaxLen items
MaxLen == 3
\* the maximum counts handed to limit range over 0..MaxLimit
MaxLimit == 4
\* the pipeline's approach file holds at most MaxRecords rows
MaxRecords == 2
\* the pipeline's object file holds 1..MaxObjects rows
MaxObjects == 1
\* the pipeline's user sets at most MaxCriteria of the ten options
MaxCriteria == 2
\* the linker's object file holds at most MaxNeos rows
MaxNeos == 2
\* the linker's approach file holds at most MaxApproaches rows
MaxApproaches == 3
\* calendar days range over 0..MaxDay
MaxDay == 1
\* a day is cut into this many time-of-day slots
SlotsPerDay == 2

----------------------------------------------------------------------------
(* Python values: a tag and a number. *)

PyNone == [t |-> "None", v |-> 0]
PyNaN == [t |-> "nan", v |-> 0]
PyFloat(x) == [t |-> "float", v |-> x]
PyBool(b) == [t |-> "bool", v |-> IF b THEN 1 ELSE 0]
PyDate(d) == [t |-> "date", v |-> d]
PyDatetime(m) == [t |-> "datetime", v |-> m]
\* a reference to an object, for getattr results that are not plain values
PyObject(i) == [t |-> "object", v |-> i]
PyStr(i) == [t |-> "str", v |-> i]
PyInt(k) == [t |-> "int", v |-> k]

\* how a call ends: a returned value, or an exception raised
Return(x) == [ok |-> TRUE, val |-> x, exc |-> "None"]
Raise(e) == [ok |-> FALSE, val |-> PyNone, exc |-> e]

\* bool(x): None, False and a zero number are falsy
Truthy(x) == x.t # "None" /\ (x.t \in {"bool", "float"} => x.v # 0)

\* datetime.date(): the calendar day, the time of day dropped
date(dt) == PyDate(dt.v \div SlotsPerDay)

----------------------------------------------------------------------------
(* models.py *)

\* float(s) of a string of decimal digits, kept as a sequence of digits
RECURSIVE float(_)
float(s) == IF s = <<>> THEN 0 ELSE float(SubSeq(s, 1, Len(s) - 1)) * 10 + s[Len(s)]

\* cd_to_datetime: a calendar string, kept as <<day, slot>>, to a timestamp
cd_to_datetime(cd) == PyDatetime(cd[1] * SlotsPerDay + cd[2])

\* NearEarthObject.__init__ with an unknown diameter stored as 0.0
NearEarthObject_zero(info) ==
    [designation |-> info.pdes,
     name |-> IF Len(info.name) = 0 THEN PyNone ELSE PyStr(info.name),
     diameter |-> IF Len(info.diameter) = 0 THEN PyFloat(0) ELSE PyFloat(float(info.diameter)),
     hazardous |-> PyBool(info.pha = "Y"),
     approaches |-> <<>>]

\* NearEarthObject.__init__ that reads the designation from the name column
NearEarthObject_byname(info) ==
    [designation |-> info.name,
     name |-> IF Len(info.name) = 0 THEN PyNone ELSE PyStr(info.name),
     diameter |-> IF Len(info.diameter) = 0 THEN PyNaN ELSE PyFloat(float(info.diameter)),
     hazardous |-> PyBool(info.pha = "Y"),
     approaches |-> <<>>]

\* NearEarthObject.__init__
NearEarthObject(info) ==
    [designation |-> info.pdes,
     name |-> IF Len(info.name) = 0 THEN PyNone ELSE PyStr(info.name),
     diameter |-> IF Len(info.diameter) = 0 THEN PyNaN ELSE PyFloat(float(info.diameter)),
     hazardous |-> PyBool(info.pha = "Y"),
     approaches |-> <<>>]

\* no object: the value of CloseApproach.neo before linking
NoNeo == 0

\* CloseApproach.__init__
CloseApproach(info) ==
    [_designation |-> info.des,
     time |-> cd_to_datetime(info.cd),
     distance |-> PyFloat(float(info.dist)),
     velocity |-> PyFloat(float(info.v_rel)),
     neo |-> NoNeo]

\* datetime_to_str: the timestamp as text, kept as <<day, slot>>
datetime_to_str(dt) == <<dt.v \div SlotsPerDay, dt.v % SlotsPerDay>>

\* CloseApproach.serialize: the dictionary, with the nested neo dictionary
\* flattened into neo_* keys; AttributeError when no object is attached
serialize(nb, a) ==
    IF a.neo = NoNeo THEN Raise("AttributeError")
    ELSE Return([datetime_utc |-> datetime_to_str(a.time),
                 distance_au |-> a.distance,
                 velocity_km_s |-> a.velocity,
                 neo_designation |-> nb[a.neo].designation,
                 neo_potentially_hazardous |-> nb[a.neo].hazardous,
                 neo_diameter_km |-> nb[a.neo].diameter,
                 neo_name |-> IF nb[a.neo].name = PyNone THEN "" ELSE nb[a.neo].name.v])

----------------------------------------------------------------------------
(* extract.py *)

\* load_neos: one NearEarthObject per row, in file order
load_neos(rows) == [i \in 1..Len(rows) |-> NearEarthObject(rows[i])]

\* load_approaches: one CloseApproach per row, in file order
load_approaches(rows) == [i \in 1..Len(rows) |-> CloseApproach(rows[i])]

----------------------------------------------------------------------------
(* filters.py *)

\* the parameters of create_filters, in declaration order (the order of locals())
ArgNames == <<"date", "start_date", "end_date", "distance_min", "distance_max",
              "velocity_min", "velocity_max", "diameter_min", "diameter_max",
              "hazardous">>

Options == {ArgNames[i] : i \in 1..Len(ArgNames)}

Attributes == {"time", "distance", "velocity", "diameter", "hazardous"}

NumericTags == {"float", "bool"}

\* whether Python orders a against b (<=, >=) instead of raising TypeError
Orderable(a, b) ==
    \/ {a.t, b.t} \subseteq {"float", "bool", "nan"}
    \/ a.t = b.t /\ a.t \in {"date", "datetime", "str"}

\* operator.eq / operator.ge / operator.le on two values
op_apply(op, a, b) ==
    IF op = "eq"
    THEN IF a.t = "nan" \/ b.t = "nan" THEN Return(PyBool(FALSE))
         ELSE IF a.t \in NumericTags /\ b.t \in NumericTags THEN Return(PyBool(a.v = b.v))
         ELSE Return(PyBool(a = b))
    ELSE IF ~Orderable(a, b) THEN Raise("TypeError")
    ELSE IF a.t = "nan" \/ b.t = "nan" THEN Return(PyBool(FALSE))
    ELSE IF op = "ge" THEN Return(PyBool(a.v >= b.v))
    ELSE Return(PyBool(a.v <= b.v))

\* GetAttribute.__init__: op and value are stored, attr is dropped
GetAttribute(op, value, attr) == [cls |-> "GetAttribute", op |-> op, value |-> value]

\* AttributeFilter.__init__: an instance of the base class
AttributeFilter(op, value) == [cls |-> "AttributeFilter", op |-> op, value |-> value]

\* getattr(approach, name) on a CloseApproach a (nb: the objects of the store)
getattr_approach(a, name) ==
    CASE name = "time" -> Return(a.time)
      [] name = "distance" -> Return(a.distance)
      [] name = "velocity" -> Return(a.velocity)
      [] name = "neo" -> Return(IF a.neo = NoNeo THEN PyNone ELSE PyObject(a.neo))
      [] name = "_designation" -> Return(PyStr(a._designation))
      [] OTHER -> Raise("AttributeError")

\* getattr(neo, name) on a NearEarthObject o
getattr_neo(o, name) ==
    CASE name = "diameter" -> Return(o.diameter)
      [] name = "hazardous" -> Return(o.hazardous)
      [] name = "designation" -> Return(PyStr(o.designation))
      [] name = "name" -> Return(o.name)
      [] OTHER -> Raise("AttributeError")

\* GetAttribute.get returning the stored attribute as it is, time included
GetAttribute_get_direct(nb, a, attr_interest) ==
    IF attr_interest \in {"hazardous", "diameter"}
    THEN IF a.neo = NoNeo
         THEN Raise("AttributeError")
         ELSE getattr_neo(nb[a.neo], attr_interest)
    ELSE getattr_approach(a, attr_interest)

\* GetAttribute.get: nb are the objects a.neo refers into
GetAttribute_get(nb, a, attr_interest) ==
    LET res == IF attr_interest \in {"hazardous", "diameter"}
               THEN IF a.neo = NoNeo
                    THEN Raise("AttributeError")
                    ELSE getattr_neo(nb[a.neo], attr_interest)
               ELSE getattr_approach(a, attr_interest)
    IN  IF ~res.ok THEN res
        ELSE IF attr_interest = "time" THEN Return(date(res.val))
        ELSE res

\* AttributeFilter.get: the base class resolves nothing
AttributeFilter_get(nb, a, attr_interest) == Raise("UnsupportedCriterionError")

\* AttributeFilter.__call__ with the operands of op exchanged
AttributeFilter_call_swapped(f, nb, a, attr_interest) ==
    LET got == IF f.cls = "GetAttribute"
               THEN GetAttribute_get(nb, a, attr_interest)
               ELSE AttributeFilter_get(nb, a, attr_interest)
    IN  IF ~got.ok THEN got ELSE op_apply(f.op, f.value, got.val)

\* AttributeFilter.__call__: op(get(approach, attr_interest), value)
AttributeFilter_call(f, nb, a, attr_interest) ==
    LET got == IF f.cls = "GetAttribute"
               THEN GetAttribute_get(nb, a, attr_interest)
               ELSE AttributeFilter_get(nb, a, attr_interest)
    IN  IF ~got.ok THEN got ELSE op_apply(f.op, got.val, f.value)

mapping_param ==
    [k \in Options |->
        CASE k \in {"date", "start_date", "end_date"} -> "time"
          [] k \in {"distance_min", "distance_max"} -> "distance"
          [] k \in {"velocity_min", "velocity_max"} -> "velocity"
          [] k \in {"diameter_min", "diameter_max"} -> "diameter"
          [] k = "hazardous" -> "hazardous"]

\* the dict comprehension with a truth test in place of the None test
arg_dict_truthy(a) == SelectSeq(ArgNames, LAMBDA k : Truthy(a[k]))

\* arg_dict: the parameters that are not None, in declaration order
arg_dict(a) == SelectSeq(ArgNames, LAMBDA k : a[k] # PyNone)

\* the if/elif chain with the two distance branches exchanged
filter_for_swapped(arg, val) ==
    CASE arg = "distance_min" -> GetAttribute("le", val, mapping_param[arg])
      [] arg = "distance_max" -> GetAttribute("ge", val, mapping_param[arg])
      [] arg = "velocity_min" -> GetAttribute("ge", val, mapping_param[arg])
      [] arg = "velocity_max" -> GetAttribute("le", val, mapping_param[arg])
      [] arg = "date" -> GetAttribute("eq", val, mapping_param[arg])
      [] arg = "start_date" -> GetAttribute("ge", val, mapping_param[arg])
      [] arg = "end_date" -> GetAttribute("le", val, mapping_param[arg])
      [] arg = "hazardous" -> GetAttribute("eq", val, mapping_param[arg])
      [] arg = "diameter_min" -> GetAttribute("ge", val, mapping_param[arg])
      [] arg = "diameter_max" -> GetAttribute("le", val, mapping_param[arg])

\* the if/elif chain of the loop body: the filter appended for one parameter
filter_for(arg, val) ==
    CASE arg = "distance_min" -> GetAttribute("ge", val, mapping_param[arg])
      [] arg = "distance_max" -> GetAttribute("le", val, mapping_param[arg])
      [] arg = "velocity_min" -> GetAttribute("ge", val, mapping_param[arg])
      [] arg = "velocity_max" -> GetAttribute("le", val, mapping_param[arg])
      [] arg = "date" -> GetAttribute("eq", val, mapping_param[arg])
      [] arg = "start_date" -> GetAttribute("ge", val, mapping_param[arg])
      [] arg = "end_date" -> GetAttribute("le", val, mapping_param[arg])
      [] arg = "hazardous" -> GetAttribute("eq", val, mapping_param[arg])
      [] arg = "diameter_min" -> GetAttribute("ge", val, mapping_param[arg])
      [] arg = "diameter_max" -> GetAttribute("le", val, mapping_param[arg])

\* create_filters: (res, attr_of_interest)
create_filters(a) ==
    LET d == arg_dict(a)
        attr_of_interest == [i \in 1..Len(d) |-> mapping_param[d[i]]]
    IN  IF Len(d) = 0
        THEN [res |-> <<>>, attr_of_interest |-> <<>>]
        ELSE [res |-> [i \in 1..Len(d) |-> filter_for(d[i], a[d[i]])],
              attr_of_interest |-> attr_of_interest]

\* iter(seq) over a list
ListIter(seq) == [kind |-> "list", seq |-> seq, pos |-> 0]

\* next() on a list iterator: the item at pos, or StopIteration
list_next(i) ==
    IF i.pos < Len(i.seq)
    THEN [status |-> "item", item |-> i.seq[i.pos + 1], it |-> [i EXCEPT !.pos = @ + 1], exc |-> "None"]
    ELSE [status |-> "stop", item |-> 0, it |-> i, exc |-> "None"]

\* limit that hands n = 0 to islice as it is
limit_keep_zero(m) == [stop |-> m, cnt |-> 0]

\* limit: the islice object over the iterator, with n = 0 turned into None
limit(m) == [stop |-> IF m = PyInt(0) THEN PyNone ELSE m, cnt |-> 0]

\* islice.__next__ that pulls from the iterator before it looks at stop
islice_next_eager(s, i, nxt) ==
    IF nxt.status # "item"
    THEN [status |-> nxt.status, item |-> 0, it |-> nxt.it, exc |-> nxt.exc, sl |-> s]
    ELSE IF s.stop # PyNone /\ s.cnt >= s.stop.v
    THEN [status |-> "stop", item |-> 0, it |-> nxt.it, exc |-> "None", sl |-> s]
    ELSE [status |-> "item", item |-> nxt.item, it |-> nxt.it, exc |-> "None",
          sl |-> [s EXCEPT !.cnt = @ + 1]]

\* islice.__next__ for start 0 and step 1, on the islice object s over the
\* iterator i; nxt is what next(i) gives, and is used only once stop is
\* known not to be reached
islice_next(s, i, nxt) ==
    IF s.stop # PyNone /\ s.cnt >= s.stop.v
    THEN [status |-> "stop", item |-> 0, it |-> i, exc |-> "None", sl |-> s]
    ELSE IF nxt.status # "item"
    THEN [status |-> nxt.status, item |-> 0, it |-> nxt.it, exc |-> nxt.exc, sl |-> s]
    ELSE [status |-> "item", item |-> nxt.item, it |-> nxt.it, exc |-> "None",
          sl |-> [s EXCEPT !.cnt = @ + 1]]

----------------------------------------------------------------------------
(* The store: linking at construction, and the query generator. *)

\* the lookup from designation to object: the index of the object, or NoNeo
lookup(nb, d) ==
    IF \E j \in 1..Len(nb) : nb[j].designation = d
    THEN CHOOSE j \in 1..Len(nb) :
            /\ nb[j].designation = d
            /\ \A h \in 1..Len(nb) : nb[h].designation = d => h <= j
    ELSE NoNeo

\* the linking loop from approach i on: each approach gets its object, each
\* object collects its approaches; a key without an object is a Link error
RECURSIVE link_from(_, _, _)
link_from(nb, aps, i) ==
    IF i > Len(aps) THEN [ok |-> TRUE, neos |-> nb, approaches |-> aps]
    ELSE LET j == lookup(nb, aps[i]._designation)
         IN  IF j = NoNeo
             THEN [ok |-> FALSE, neos |-> nb, approaches |-> aps]
             ELSE link_from([nb EXCEPT ![j].approaches = Append(@, i)],
                            [aps EXCEPT ![i].neo = j], i + 1)

\* store construction
NEODatabase(nb, aps) == link_from(nb, aps, 1)

\* all(f(approach, attr) for f, attr in zip(filters, attrs)), from filter i on
RECURSIVE all_from(_, _, _, _, _)
all_from(fs, ats, nb, a, i) ==
    IF i > Len(fs) \/ i > Len(ats) THEN Return(PyBool(TRUE))
    ELSE LET r == AttributeFilter_call(fs[i], nb, a, ats[i])
         IN  IF ~r.ok THEN r
             ELSE IF ~Truthy(r.val) THEN Return(PyBool(FALSE))
             ELSE all_from(fs, ats, nb, a, i + 1)

\* the query generator over the store's approaches
QueryGen == [kind |-> "query", seq |-> <<>>, pos |-> 0]

\* next() on the query generator: scan on from pos to the next approach
\* every predicate accepts; items are positions in the store's approaches
RECURSIVE query_next(_, _, _, _, _)
query_next(i, nb, aps, fs, ats) ==
    IF i.pos >= Len(aps)
    THEN [status |-> "stop", item |-> 0, it |-> i, exc |-> "None"]
    ELSE LET m == all_from(fs, ats, nb, aps[i.pos + 1], 1)
             j == [i EXCEPT !.pos = @ + 1]
         IN  IF ~m.ok THEN [status |-> "raise", item |-> 0, it |-> j, exc |-> m.exc]
             ELSE IF Truthy(m.val)
             THEN [status |-> "item", item |-> i.pos + 1, it |-> j, exc |-> "None"]
             ELSE query_next(j, nb, aps, fs, ats)

\* next() on either kind of iterator
iter_next(i, nb, aps, fs, ats) ==
    IF i.kind = "list" THEN list_next(i) ELSE query_next(i, nb, aps, fs, ats)

----------------------------------------------------------------------------
(* write.py *)

\* a line of the output file: what it is, and the serialized approach in it
Line(kind, row) == [kind |-> kind, row |-> row]
NoRow == <<>>

\* what the file holds before a writer opens it
OldContent == <<Line("old", NoRow)>>

\* str(v) of a dictionary value
str(x) == <<"str", x>>

\* the row write_to_csv hands to DictWriter.writerow for a serialized approach
csv_row(d) ==
    [datetime_utc |-> str(d.datetime_utc),
     distance_au |-> str(d.distance_au),
     velocity_km_s |-> str(d.velocity_km_s),
     designation |-> str(d.neo_designation),
     potentially_hazardous |-> str(d.neo_potentially_hazardous),
     diameter_km |-> str(d.neo_diameter_km),
     name |-> str(d.neo_name)]

\* open(filename, 'w') and writeheader()
csv_open == <<Line("header", NoRow)>>

\* one turn of write_to_csv's loop on the approach a
csv_write(f, nb, a) ==
    LET d == serialize(nb, a)
    IN  IF d.ok THEN [ok |-> TRUE, file |-> Append(f, Line("row", csv_row(d.val))), exc |-> "None"]
        ELSE [ok |-> FALSE, file |-> f, exc |-> d.exc]

\* len(results): a list has a length, an islice object has none
len(kind, i) == IF kind = "list" THEN Return(PyInt(Len(i.seq))) ELSE Raise("TypeError")

\* json.dump(rows, f): the list, one entry per dictionary
json_dump(rows) ==
    <<Line("[", NoRow)>> \o [h \in 1..Len(rows) |-> Line("entry", rows[h])] \o <<Line("]", NoRow)>>

----------------------------------------------------------------------------
(* The argument values the command line can hand to create_filters. *)

DateArgs == {PyNone} \cup {PyDate(d) : d \in 0..MaxDay}
FloatArgs == {PyNone} \cup {PyFloat(x) : x \in 0..MaxVal}
BoolArgs == {PyNone, PyBool(TRUE), PyBool(FALSE)}

AllArgs ==
    [date : DateArgs, start_date : DateArgs, end_date : DateArgs,
     distance_min : FloatArgs, distance_max : FloatArgs,
     velocity_min : FloatArgs, velocity_max : FloatArgs,
     diameter_min : FloatArgs, diameter_max : FloatArgs,
     hazardous : BoolArgs]

RefValues == (DateArgs \cup FloatArgs \cup BoolArgs) \ {PyNone}

NoArgs == [k \in Options |-> PyNone]

NoIter == [kind |-> "none", seq |-> <<>>, pos |-> 0]
NoSlice == [stop |-> PyNone, cnt |-> 0]

(* The rows the two loaders hand to the constructors. *)

NameStrs == {"", "Eros"}
DiameterStrs == {<<>>} \cup {<<x>> : x \in 0..MaxVal}
NumberStrs == {<<x>> : x \in 0..MaxVal}
CalendarStrs == (0..MaxDay) \X (0..(SlotsPerDay - 1))

\* primary designations, as the files spell them
Designations == <<"433", "719", "887", "1036", "1221", "1566">>

NeoRows(D) == [pdes : D, name : NameStrs, diameter : DiameterStrs, pha : {"Y", "N"}]
CadRows(D) == [des : D, cd : CalendarStrs, dist : NumberStrs, v_rel : NumberStrs]

----------------------------------------------------------------------------
(* The predicate builder alone, over every assignment of the ten options. *)

InitFilters ==
    /\ pc = "args"
    /\ args \in AllArgs
    /\ neo_rows = <<>> /\ cad_rows = <<>>
    /\ neos = <<>> /\ approaches = <<>>
    /\ filters = <<>> /\ attrs = <<>>
    /\ n = PyNone /\ it = NoIter /\ sl = NoSlice
    /\ requested = 0 /\ yielded = <<>>
    /\ results = "none" /\ fmt = "none" /\ file = <<>> /\ ret = PyNone /\ err = "None"

\* filters, attrs = create_filters(**args)
CreateFilters ==
    /\ pc = "args"
    /\ filters' = create_filters(args).res
    /\ attrs' = create_filters(args).attr_of_interest
    /\ pc' = "filters"
    /\ UNCHANGED <<neo_rows, cad_rows, neos, approaches, args, n, it, sl, requested, yielded, results, fmt, file, ret, err>>

NextFilters == CreateFilters

SpecFilters == InitFilters /\ [][NextFilters]_vars

----------------------------------------------------------------------------
(* One predicate called directly on one approach with one attribute name. *)

\* the attribute names a caller can pass: the five with a rule, and others
AttrNames == Attributes \cup {"neo", "_designation", "foo"}

InitEval ==
    /\ pc = "eval"
    /\ neo_rows \in {<<row>> : row \in NeoRows({Designations[1]})}
    /\ cad_rows \in {<<row>> : row \in CadRows({Designations[1]})}
    /\ neos = load_neos(neo_rows)
    /\ \E ref \in {NoNeo, 1} :
          approaches = <<[CloseApproach(cad_rows[1]) EXCEPT !.neo = ref]>>
    /\ \E cls \in {"GetAttribute", "AttributeFilter"}, op \in {"eq", "ge", "le"},
          value \in RefValues, attr \in AttrNames :
          /\ filters = <<IF cls = "GetAttribute" THEN GetAttribute(op, value, attr)
                         ELSE AttributeFilter(op, value)>>
          /\ attrs = <<attr>>
    /\ args = NoArgs
    /\ n = PyNone /\ it = NoIter /\ sl = NoSlice
    /\ requested = 0 /\ yielded = <<>>
    /\ results = "none" /\ fmt = "none" /\ file = <<>> /\ ret = PyNone /\ err = "None"

\* f(approach, attr_interest) for the one predicate, approach and name
Call ==
    /\ pc = "eval"
    /\ LET r == AttributeFilter_call(filters[1], neos, approaches[1], attrs[1])
       IN  ret' = r.val /\ err' = r.exc
    /\ pc' = "called"
    /\ UNCHANGED <<neo_rows, cad_rows, neos, approaches, args, filters, attrs, n, it, sl, requested,
                   yielded, results, fmt, file>>

NextEval == Call

SpecEval == InitEval /\ [][NextEval]_vars

----------------------------------------------------------------------------
(* The limiter alone, over a list iterator, with a consumer that may keep   *)
(* calling next() after the stream has ended.                               *)

Items == 0..MaxVal
ItemSeqs == UNION {[1..k -> Items] : k \in 0..MaxLen}
LimitArgs == {PyNone} \cup {PyInt(k) : k \in 0..MaxLimit}
MaxRequests == MaxLen + 2

InitLimit ==
    /\ pc = "limit"
    /\ \E seq \in ItemSeqs : it = ListIter(seq)
    /\ n \in LimitArgs
    /\ sl = NoSlice
    /\ neo_rows = <<>> /\ cad_rows = <<>>
    /\ neos = <<>> /\ approaches = <<>>
    /\ args = NoArgs /\ filters = <<>> /\ attrs = <<>>
    /\ requested = 0 /\ yielded = <<>>
    /\ results = "none" /\ fmt = "none" /\ file = <<>> /\ ret = PyNone /\ err = "None"

\* sl = limit(it, n)
Limit ==
    /\ pc = "limit"
    /\ sl' = limit(n)
    /\ pc' = "consume"
    /\ UNCHANGED <<neo_rows, cad_rows, neos, approaches, args, filters, attrs, n, it, requested,
                   yielded, results, fmt, file, ret, err>>

\* next(sl) by the consumer
Request ==
    /\ pc \in {"consume", "stopped"}
    /\ requested < MaxRequests
    /\ LET r == islice_next(sl, it, list_next(it))
       IN  /\ sl' = r.sl
           /\ it' = r.it
           /\ yielded' = IF r.status = "item" THEN Append(yielded, r.item) ELSE yielded
           /\ pc' = IF r.status = "item" THEN pc ELSE "stopped"
    /\ requested' = requested + 1
    /\ UNCHANGED <<neo_rows, cad_rows, neos, approaches, args, filters, attrs, n, results, fmt, file, ret, err>>

NextLimit == Limit \/ Request

SpecLimit == InitLimit /\ [][NextLimit]_vars

----------------------------------------------------------------------------
(* Store construction alone: designations vary, the other fields do not.    *)

LinkNeoRows(k) ==
    [i \in 1..k |-> [pdes |-> Designations[i], name |-> "", diameter |-> <<>>, pha |-> "N"]]

LinkCadRows ==
    UNION {[1..k -> [des : {Designations[i] : i \in 1..(MaxNeos + 1)},
                     cd : {<<0, 0>>}, dist : {<<0>>}, v_rel : {<<0>>}]] :
           k \in 0..MaxApproaches}

InitLink ==
    /\ pc = "load"
    /\ neo_rows \in {LinkNeoRows(k) : k \in 0..MaxNeos}
    /\ cad_rows \in LinkCadRows
    /\ neos = <<>> /\ approaches = <<>>
    /\ args = NoArgs /\ filters = <<>> /\ attrs = <<>>
    /\ n = PyNone /\ it = NoIter /\ sl = NoSlice
    /\ requested = 0 /\ yielded = <<>>
    /\ results = "none" /\ fmt = "none" /\ file = <<>> /\ ret = PyNone /\ err = "None"

\* load_neos and load_approaches
Load ==
    /\ pc = "load"
    /\ neos' = load_neos(neo_rows)
    /\ approaches' = load_approaches(cad_rows)
    /\ pc' = "link"
    /\ UNCHANGED <<neo_rows, cad_rows, args, filters, attrs, n, it, sl, requested,
                   yielded, results, fmt, file, ret, err>>

\* NEODatabase(neos, approaches)
Link ==
    /\ pc = "link"
    /\ LET r == NEODatabase(neos, approaches)
       IN  /\ neos' = r.neos
           /\ approaches' = r.approaches
           /\ pc' = IF r.ok THEN "linked" ELSE "failed"
           /\ err' = IF r.ok THEN "None" ELSE "LinkError"
    /\ UNCHANGED <<neo_rows, cad_rows, args, filters, attrs, n, it, sl, requested,
                   yielded, results, fmt, file, ret>>

NextLink == Load \/ Link

SpecLink == InitLink /\ [][NextLink]_vars

----------------------------------------------------------------------------
(* The pipeline: load, link, build the predicates, run the query.           *)

PipeNeoRows ==
    UNION {{r \in [1..k -> NeoRows({Designations[i] : i \in 1..k})] :
               \A i \in 1..k : r[i].pdes = Designations[i] /\ r[i].name = ""} :
           k \in 1..MaxObjects}

PipeCadRows(k) ==
    UNION {[1..m -> CadRows({Designations[i] : i \in 1..k})] : m \in 0..MaxRecords}

\* the assignments of the ten options with at most MaxCriteria of them set
ArgValues(k) ==
    IF k \in {"date", "start_date", "end_date"} THEN DateArgs \ {PyNone}
    ELSE IF k = "hazardous" THEN BoolArgs \ {PyNone}
    ELSE FloatArgs \ {PyNone}

ArgsOn(S) ==
    {[k \in Options |-> IF k \in S THEN f[k] ELSE PyNone] :
        f \in {g \in [S -> RefValues] : \A k \in S : g[k] \in ArgValues(k)}}

PipeArgs == UNION {ArgsOn(S) : S \in {T \in SUBSET Options : Cardinality(T) <= MaxCriteria}}

Init ==
    /\ pc = "load"
    /\ neo_rows \in PipeNeoRows
    /\ cad_rows \in PipeCadRows(Len(neo_rows))
    /\ neos = <<>> /\ approaches = <<>>
    /\ args = NoArgs /\ filters = <<>> /\ attrs = <<>>
    /\ n = PyNone /\ it = NoIter /\ sl = NoSlice
    /\ requested = 0 /\ yielded = <<>>
    /\ results = "none" /\ fmt = "none" /\ file = <<>> /\ ret = PyNone /\ err = "None"

\* the user's criteria arrive, and filters, attrs = create_filters(**args)
MakeFilters ==
    /\ pc = "linked"
    /\ \E a \in PipeArgs :
          /\ args' = a
          /\ filters' = create_filters(a).res
          /\ attrs' = create_filters(a).attr_of_interest
    /\ pc' = "filters"
    /\ UNCHANGED <<neo_rows, cad_rows, neos, approaches, n, it, sl, requested,
                   yielded, results, fmt, file, ret, err>>

\* query(filters, attrs): the generator is created, nothing runs yet
Query ==
    /\ pc = "filters"
    /\ it' = QueryGen
    /\ pc' = "query"
    /\ UNCHANGED <<neo_rows, cad_rows, neos, approaches, args, filters, attrs, n, sl,
                   requested, yielded, results, fmt, file, ret, err>>

\* next() on the query generator by its consumer
Pull ==
    /\ pc = "query"
    /\ LET r == query_next(it, neos, approaches, filters, attrs)
       IN  /\ it' = r.it
           /\ yielded' = IF r.status = "item" THEN Append(yielded, r.item) ELSE yielded
           /\ pc' = CASE r.status = "item" -> "query"
                      [] r.status = "stop" -> "done"
                      [] OTHER -> "failed"
           /\ err' = r.exc
    /\ requested' = requested + 1
    /\ UNCHANGED <<neo_rows, cad_rows, neos, approaches, args, filters, attrs, n, sl,
                   results, fmt, file, ret>>

Next == Load \/ Link \/ MakeFilters \/ Query \/ Pull

Spec == Init /\ [][Next]_vars

----------------------------------------------------------------------------
(* The writers, handed the approaches of one object: each approach linked   *)
(* to it or left as constructed; as limit's stream over the query with no   *)
(* criteria, or as a list.                                                  *)

WriteCadRows == PipeCadRows(1)

InitWrite ==
    /\ pc = "results"
    /\ neo_rows \in {<<row>> : row \in NeoRows({Designations[1]})}
    /\ cad_rows \in WriteCadRows
    /\ neos = load_neos(neo_rows)
    /\ \E linked \in [1..Len(cad_rows) -> BOOLEAN] :
          approaches = [i \in 1..Len(cad_rows) |->
                           [CloseApproach(cad_rows[i]) EXCEPT
                               !.neo = IF linked[i] THEN 1 ELSE NoNeo]]
    /\ args = NoArgs /\ filters = <<>> /\ attrs = <<>>
    /\ n = PyNone /\ it = NoIter /\ sl = NoSlice
    /\ requested = 0 /\ yielded = <<>>
    /\ results = "none" /\ fmt = "none"
    /\ file = OldContent /\ ret = PyNone /\ err = "None"

\* results = limit(query(), n), or the approaches as a list, and the
\* writer the file name selects
Results ==
    /\ pc = "results"
    /\ \E m \in LimitArgs, kind \in {"islice", "list"}, f \in {"csv", "json"} :
          /\ kind = "list" => m = PyNone
          /\ n' = m /\ results' = kind /\ fmt' = f
          /\ it' = IF kind = "list" THEN ListIter([i \in 1..Len(approaches) |-> i]) ELSE QueryGen
          /\ sl' = limit(m)
    /\ pc' = "open"
    /\ UNCHANGED <<neo_rows, cad_rows, neos, approaches, args, filters, attrs,
                   requested, yielded, file, ret, err>>

\* write_to_csv up to its loop
OpenCsv ==
    /\ pc = "open" /\ fmt = "csv"
    /\ file' = csv_open
    /\ pc' = "rows"
    /\ UNCHANGED <<neo_rows, cad_rows, neos, approaches, args, filters, attrs, n, it,
                   sl, requested, yielded, results, fmt, ret, err>>

\* one turn of write_to_csv's loop, or its end
CsvRow ==
    /\ pc = "rows"
    /\ LET r == islice_next(sl, it, iter_next(it, neos, approaches, filters, attrs))
           w == csv_write(file, neos, approaches[r.item])
       IN  /\ sl' = r.sl /\ it' = r.it
           /\ requested' = requested + 1
           /\ IF r.status = "stop"
              THEN pc' = "done" /\ UNCHANGED <<file, err, yielded>>
              ELSE IF r.status = "raise"
              THEN pc' = "failed" /\ err' = r.exc /\ UNCHANGED <<file, yielded>>
              ELSE /\ yielded' = Append(yielded, r.item)
                   /\ file' = w.file
                   /\ err' = w.exc
                   /\ pc' = IF w.ok THEN "rows" ELSE "failed"
    /\ UNCHANGED <<neo_rows, cad_rows, neos, approaches, args, filters, attrs, n,
                   results, fmt, ret>>

\* write_to_json up to its length test
OpenJson ==
    /\ pc = "open" /\ fmt = "json"
    /\ file' = <<>>
    /\ LET l == len(results, it)
       IN  /\ pc' = IF l.ok THEN "dump" ELSE "failed"
           /\ err' = l.exc
    /\ UNCHANGED <<neo_rows, cad_rows, neos, approaches, args, filters, attrs, n, it,
                   sl, requested, yielded, results, fmt, ret>>

\* one turn of write_to_json's comprehension, or its end and json.dump;
\* yielded holds the approaches serialized so far
JsonItem ==
    /\ pc = "dump"
    /\ LET r == islice_next(sl, it, iter_next(it, neos, approaches, filters, attrs))
           d == serialize(neos, approaches[r.item])
       IN  /\ sl' = r.sl /\ it' = r.it
           /\ requested' = requested + 1
           /\ IF r.status = "stop"
              THEN /\ file' = json_dump([h \in 1..Len(yielded) |->
                                            serialize(neos, approaches[yielded[h]]).val])
                   /\ pc' = "done"
                   /\ UNCHANGED <<err, yielded>>
              ELSE IF r.status = "raise"
              THEN pc' = "failed" /\ err' = r.exc /\ UNCHANGED <<file, yielded>>
              ELSE /\ yielded' = IF d.ok THEN Append(yielded, r.item) ELSE yielded
                   /\ err' = d.exc
                   /\ pc' = IF d.ok THEN "dump" ELSE "failed"
                   /\ UNCHANGED file
    /\ UNCHANGED <<neo_rows, cad_rows, neos, approaches, args, filters, attrs, n,
                   results, fmt, ret>>

NextWrite == Results \/ OpenCsv \/ CsvRow \/ OpenJson \/ JsonItem

SpecWrite == InitWrite /\ [][NextWrite]_vars

----------------------------------------------------------------------------
(* Claims about the predicate builder (SpecFilters). *)

IsSet(k) == args[k] # PyNone

\* how many of the first i parameters are set
Rank(i) == Cardinality({j \in 1..i : IsSet(ArgNames[j])})

\* the fixed mapping of the specification: option -> comparison operator
SpecOp(k) ==
    IF k \in {"date", "hazardous"} THEN "eq"
    ELSE IF k \in {"start_date", "distance_min", "velocity_min", "diameter_min"} THEN "ge"
    ELSE "le"

\* the fixed mapping of the specification: option -> target attribute
SpecAttr(k) ==
    IF k \in {"date", "start_date", "end_date"} THEN "time"
    ELSE IF k \in {"distance_min", "distance_max"} THEN "distance"
    ELSE IF k \in {"velocity_min", "velocity_max"} THEN "velocity"
    ELSE IF k \in {"diameter_min", "diameter_max"} THEN "diameter"
    ELSE "hazardous"

\* C2: create_filters returns one predicate (and one attribute name) per
\* option that is not None and none for an option that is None; an option
\* set to False or to 0 is set: the predicate at the rank of each set option
\* carries that option's value.
C2_OnePredicatePerSetOption ==
    pc = "filters" =>
        /\ Len(filters) = Cardinality({k \in Options : IsSet(k)})
        /\ Len(attrs) = Len(filters)
        /\ \A i \in 1..Len(ArgNames) :
              IsSet(ArgNames[i]) =>
                  /\ Rank(i) \in 1..Len(filters)
                  /\ filters[Rank(i)].value = args[ArgNames[i]]

\* C2's case: hazardous=False and distance_min=0 are the only options set,
\* and two predicates came back.
C2_Witness ==
    /\ pc = "filters"
    /\ args.hazardous = PyBool(FALSE)
    /\ args.distance_min = PyFloat(0)
    /\ Cardinality({k \in Options : IsSet(k)}) = 2
    /\ Len(filters) = 2

\* C3: for every set option, the predicate at that option's position has
\* the option's value as reference value and the operator of the fixed
\* mapping, and the attribute name at the same position is the option's
\* target attribute (positions follow the declaration order of the options).
C3_PredicateMatchesOption ==
    pc = "filters" =>
        \A i \in 1..Len(ArgNames) :
            LET k == ArgNames[i] IN
            IsSet(k) =>
                /\ Rank(i) \in 1..Len(filters)
                /\ Rank(i) \in 1..Len(attrs)
                /\ filters[Rank(i)].value = args[k]
                /\ filters[Rank(i)].op = SpecOp(k)
                /\ attrs[Rank(i)] = SpecAttr(k)

\* C3's case: date, distance_min, distance_max and hazardous are set (every
\* operator occurs), among others or not, and the predicates were built.
C3_Witness ==
    /\ pc = "filters"
    /\ IsSet("date") /\ IsSet("distance_max") /\ IsSet("distance_min")
    /\ IsSet("hazardous")
    /\ Len(filters) >= 4
    /\ attrs[1] = "time"

----------------------------------------------------------------------------
(* Claims about the limiter (SpecLimit). *)

Min(a, b) == IF a <= b THEN a ELSE b

\* how many items limit(seq, n) is to yield
ExpectedCount ==
    IF n = PyNone \/ n.v = 0 THEN Len(it.seq) ELSE Min(n.v, Len(it.seq))

\* C4: once the limited stream has ended, it has yielded the first
\* min(n, len(seq)) items of seq in order for n > 0, and every item of seq
\* in order for n = 0 and n = None.
C4_LimitYieldsPrefix ==
    pc = "stopped" => yielded = SubSeq(it.seq, 1, ExpectedCount)

\* C4's case: n = 0 on a sequence of two or more items, all of them yielded.
C4_Witness ==
    /\ pc = "stopped"
    /\ n = PyInt(0)
    /\ Len(it.seq) >= 2
    /\ yielded = it.seq

\* C5: limit pulls no more from its upstream than the consumer has asked
\* for, never more than n items for n > 0 (also when the consumer keeps
\* asking after the end), and nothing when the limited stream is created.
C5_LimitIsLazy ==
    /\ it.pos <= requested
    /\ (n # PyNone /\ n.v > 0) => it.pos <= n.v
    /\ (pc = "consume" /\ requested = 0) => it.pos = 0

\* C5's case: n = 1 on a longer sequence, and the consumer has asked three
\* times: twice after the end of the limited stream.
C5_Witness ==
    /\ pc = "stopped"
    /\ n = PyInt(1)
    /\ Len(it.seq) >= 2
    /\ requested = 3
    /\ it.pos = 1

----------------------------------------------------------------------------
(* Claims about the store and the query (SpecLink, Spec), stated on the     *)
(* rows of the two input files.                                             *)

RowIndices == [i \in 1..Len(cad_rows) |-> i]

\* the number a one-digit numeric column spells
Spelled(s) == CHOOSE x \in 0..9 : s = <<x>>

\* the object row an approach row's foreign key names
RowNeo(i) == CHOOSE j \in 1..Len(neo_rows) : neo_rows[j].pdes = cad_rows[i].des

Resolved(i) == \E j \in 1..Len(neo_rows) : neo_rows[j].pdes = cad_rows[i].des

DiameterKnown(i) == neo_rows[RowNeo(i)].diameter # <<>>

\* what criterion k, set to args[k], asks of approach row i
Holds(k, i) ==
    LET v == args[k].v IN
    CASE k = "date" -> cad_rows[i].cd[1] = v
      [] k = "start_date" -> cad_rows[i].cd[1] >= v
      [] k = "end_date" -> cad_rows[i].cd[1] <= v
      [] k = "distance_min" -> Spelled(cad_rows[i].dist) >= v
      [] k = "distance_max" -> Spelled(cad_rows[i].dist) <= v
      [] k = "velocity_min" -> Spelled(cad_rows[i].v_rel) >= v
      [] k = "velocity_max" -> Spelled(cad_rows[i].v_rel) <= v
      [] k = "diameter_min" ->
            DiameterKnown(i) /\ Spelled(neo_rows[RowNeo(i)].diameter) >= v
      [] k = "diameter_max" ->
            DiameterKnown(i) /\ Spelled(neo_rows[RowNeo(i)].diameter) <= v
      [] k = "hazardous" -> (neo_rows[RowNeo(i)].pha = "Y") <=> (v = 1)

SpecMatches(i) == \A k \in Options : IsSet(k) => Holds(k, i)

\* C1: the query over the linked approaches, with the predicates
\* create_filters built, raises nothing and, once exhausted, has yielded in
\* store order exactly the approaches on which every set criterion's
\* predicate is true; with no criterion set, all of them.
C1_QueryYieldsMatches ==
    /\ pc \in {"filters", "query", "done"} => err = "None"
    /\ pc # "failed"
    /\ pc = "done" => yielded = SelectSeq(RowIndices, SpecMatches)

\* C1's case: two criteria are set, the store holds two approaches, and the
\* query has dropped the first and kept the second.
C1_Witness ==
    /\ pc = "done"
    /\ Len(filters) = 2
    /\ Len(approaches) = 2
    /\ yielded = <<2>>

\* C6: an object whose diameter column is empty is stored with the
\* not-a-number sentinel; on every approach linked to it, a diameter_min
\* and a diameter_max predicate built by create_filters are false for every
\* reference value; and a query with a diameter bound yields no such approach.
C6_UnknownDiameterExcluded ==
    /\ pc # "load" =>
          \A j \in 1..Len(neo_rows) :
              neo_rows[j].diameter = <<>> => neos[j].diameter = PyNaN
    /\ pc \in {"linked", "filters", "query", "done"} =>
          \A i \in 1..Len(cad_rows) :
              ~DiameterKnown(i) =>
                  \A k \in {"diameter_min", "diameter_max"}, x \in 0..MaxVal :
                      LET cf == create_filters([NoArgs EXCEPT ![k] = PyFloat(x)])
                      IN  AttributeFilter_call(cf.res[1], neos, approaches[i],
                                               cf.attr_of_interest[1])
                              = Return(PyBool(FALSE))
    /\ (pc \in {"query", "done"} /\ (IsSet("diameter_min") \/ IsSet("diameter_max"))) =>
          \A h \in 1..Len(yielded) : DiameterKnown(yielded[h])

\* C6's case: the object's diameter column is empty, diameter_max is the
\* one criterion set, there are two approaches, and the query has ended
\* without yielding any.
C6_Witness ==
    /\ pc = "done"
    /\ neo_rows[1].diameter = <<>>
    /\ IsSet("diameter_max")
    /\ Len(filters) = 1
    /\ Len(approaches) = 2
    /\ approaches[1].neo = 1
    /\ yielded = <<>>

\* C8: objects start with no approaches and approaches with no object;
\* store construction either completes, and then every approach refers to
\* the object whose designation is its foreign key and every object holds
\* exactly the approaches with its designation, once each, in file order;
\* or fails with a Link error, which it does exactly when some foreign key
\* names no object.
C8_LinkingTotal ==
    /\ pc = "link" =>
          /\ \A j \in 1..Len(neos) : neos[j].approaches = <<>>
          /\ \A i \in 1..Len(approaches) : approaches[i].neo = NoNeo
    /\ pc = "linked" =>
          /\ Len(neos) = Len(neo_rows) /\ Len(approaches) = Len(cad_rows)
          /\ \A i \in 1..Len(cad_rows) :
                /\ approaches[i].neo \in 1..Len(neo_rows)
                /\ neo_rows[approaches[i].neo].pdes = cad_rows[i].des
                /\ neos[approaches[i].neo].designation = cad_rows[i].des
          /\ \A j \in 1..Len(neo_rows) :
                neos[j].approaches =
                    SelectSeq(RowIndices, LAMBDA i : cad_rows[i].des = neo_rows[j].pdes)
    /\ pc \in {"linked", "failed"} =>
          /\ pc = "failed" <=> \E i \in 1..Len(cad_rows) : ~Resolved(i)
          /\ pc = "failed" => err = "LinkError"

\* C8's case: two objects, three approaches, the first and the third on the
\* second object, and construction has completed.
C8_Witness ==
    /\ pc = "linked"
    /\ Len(neos) = 2
    /\ Len(approaches) = 3
    /\ neos[2].approaches = <<1, 3>>
    /\ neos[1].approaches = <<2>>

----------------------------------------------------------------------------
(* Claims about calling a predicate with a name that has no rule (SpecEval) *)
(* and about the writers (SpecWrite).                                       *)

\* C7: a predicate called with an attribute name outside time, distance,
\* velocity, diameter and hazardous ends with UnsupportedCriterionError,
\* not with another error and not with a value.
C7_UnsupportedCriterionRaised ==
    (pc = "called" /\ attrs[1] \notin Attributes) => err = "UnsupportedCriterionError"

AllLinked == \A i \in 1..Len(approaches) : approaches[i].neo # NoNeo

\* the approaches limit(query(), n) is to yield
StreamItems == SubSeq([i \in 1..Len(approaches) |-> i], 1, 
                      IF n = PyNone \/ n.v = 0 THEN Len(approaches) ELSE Min(n.v, Len(approaches)))

\* what a writer is to leave in the file for the stream of linked approaches
WrittenFor(items) ==
    IF fmt = "csv"
    THEN csv_open \o [h \in 1..Len(items) |->
                         Line("row", csv_row(serialize(neos, approaches[items[h]]).val))]
    ELSE json_dump([h \in 1..Len(items) |-> serialize(neos, approaches[items[h]]).val])

\* C9: when an error is raised while a record of the stream is produced or
\* serialized, the file is as it was before the writer ran: no header, no
\* rows, not truncated; when none is raised the whole stream is written.
C9_NoPartialOutput ==
    /\ (results = "islice" /\ pc = "failed" /\ err = "AttributeError") => file = OldContent
    /\ (pc = "done" /\ results = "islice") => file = WrittenFor(StreamItems)

\* C10: handed limit's stream of linked approaches, either writer ends
\* without raising, with one entry per approach of the stream, in order.
C10_WritersAcceptStream ==
    (results = "islice" /\ AllLinked) =>
        /\ pc # "failed"
        /\ pc = "done" => file = WrittenFor(StreamItems)

----------------------------------------------------------------------------
(* Claims about the value a predicate resolves from a record (SpecEval).    *)

\* the calendar day of a timestamp, counted from the first day of the data
DayOf(dt) == dt.v \div SlotsPerDay

\* the value the rules name for approach a and attribute attr: the linked
\* object's field, the approach's own field, or the day of its timestamp
SpecResolved(a, attr) ==
    CASE attr = "hazardous" -> neos[a.neo].hazardous
      [] attr = "diameter" -> neos[a.neo].diameter
      [] attr = "distance" -> a.distance
      [] attr = "velocity" -> a.velocity
      [] attr = "time" -> PyDate(DayOf(a.time))

\* the predicate called is a GetAttribute, the name has a rule, and the
\* approach is linked when the rule goes through its object
ResolvableCall ==
    /\ pc = "called"
    /\ filters[1].cls = "GetAttribute"
    /\ attrs[1] \in Attributes
    /\ attrs[1] \in {"hazardous", "diameter"} => approaches[1].neo # NoNeo

\* the approaches the loader can build whose timestamp is on the day of dt
SameDayApproaches(dt) ==
    {CloseApproach(row) : row \in {r \in CadRows({Designations[1]}) :
                                      DayOf(cd_to_datetime(r.cd)) = DayOf(dt)}}

\* C11: a predicate compares its reference value with: the linked object's
\* field for hazardous and diameter; the approach's own field for distance
\* and velocity; the date of the approach's timestamp, time of day dropped,
\* for time, so that two approaches on the same calendar day get the same
\* result from a predicate on time.
C11_ResolvedValue ==
    ResolvableCall =>
        /\ LET r == op_apply(filters[1].op, SpecResolved(approaches[1], attrs[1]),
                             filters[1].value)
           IN  ret = r.val /\ err = r.exc
        /\ attrs[1] = "time" =>
               \A b \in SameDayApproaches(approaches[1].time) :
                   LET r == AttributeFilter_call(filters[1], neos, b, "time")
                   IN  ret = r.val /\ err = r.exc

\* C11 witness: a date predicate has accepted an approach whose timestamp
\* is later than midnight on the day asked for
C11_Witness ==
    /\ ResolvableCall
    /\ attrs[1] = "time" /\ filters[1].op = "eq"
    /\ approaches[1].time.v % SlotsPerDay # 0
    /\ filters[1].value = PyDate(DayOf(approaches[1].time))
    /\ ret = PyBool(TRUE) /\ err = "None"

====
